---- MODULE Spec2Model ----
(***************************************************************************)
(* The two JSON-backed document stores of the recipe application:          *)
(* ExpirationTracker (src/expiration_tracker.py) and UserPreferences       *)
(* (src/user_preferences.py).  Each store owns one in-memory document and  *)
(* one backing file; every public method is one action.                    *)
(*                                                                         *)
(* Python strings that the code parses or formats (dates) are sequences of *)
(* one-character strings; opaque strings (names, titles) are TLA+ strings. *)
(***************************************************************************)
EXTENDS Integers, Sequences, FiniteSets, TLC

\* ------------------------------------------------------------------------
\* Bounds of the exploration
\* ------------------------------------------------------------------------
\* longest item list add_item is explored on
MaxItems == 2
\* number of environment I/O faults (failing open/write) in one behaviour
MaxFaults == 1
\* number of list elements one preference document is explored up to
MaxEntries == 2
\* last clock tick
MaxNow == 1
\* longest meal history and last clock tick of the meal-history exploration
MaxMeals == 5
MaxMealNow == 4

\* ------------------------------------------------------------------------
\* Python values
\* ------------------------------------------------------------------------
PyStr(s) == [type |-> "str", chars |-> s]
PyDate(y, m, d) == [type |-> "date", ymd |-> <<y, m, d>>]
PyInt(n) == [type |-> "int", n |-> n]
PyNone == [type |-> "NoneType"]

\* truth value of a Python object (`not x` is its negation)
Truthy(v) ==
    CASE v.type = "str" -> v.chars # <<>>
      [] v.type = "int" -> v.n # 0
      [] v.type = "NoneType" -> FALSE
      [] OTHER -> TRUE

\* ------------------------------------------------------------------------
\* Calendar arithmetic of datetime.date
\* ------------------------------------------------------------------------
DigitChars == <<"0", "1", "2", "3", "4", "5", "6", "7", "8", "9">>
DigitSet == {DigitChars[i] : i \in 1..10}
IsDigit(c) == c \in DigitSet
DigitValues == [c \in DigitSet |-> (CHOOSE i \in 1..10 : DigitChars[i] = c) - 1]
DigitVal(c) == DigitValues[c]
DigitChar(n) == DigitChars[n + 1]

IsLeap(y) == (y % 4 = 0) /\ ((y % 100 # 0) \/ (y % 400 = 0))

DaysInMonth(y, m) ==
    IF m = 2 THEN (IF IsLeap(y) THEN 29 ELSE 28)
    ELSE IF m \in {4, 6, 9, 11} THEN 30 ELSE 31

\* datetime.date(y, m, d) raises ValueError outside these ranges
ValidDate(y, m, d) ==
    /\ y \in 1..9999
    /\ m \in 1..12
    /\ d \in 1..DaysInMonth(y, m)

RECURSIVE DaysBeforeMonth(_, _)
DaysBeforeMonth(y, m) ==
    IF m = 1 THEN 0 ELSE DaysBeforeMonth(y, m - 1) + DaysInMonth(y, m - 1)

\* date.toordinal(): day number, 0001-01-01 is day 1
toordinal(ymd) ==
    LET y == ymd[1]
        p == y - 1
    IN  p * 365 + (p \div 4) - (p \div 100) + (p \div 400)
          + DaysBeforeMonth(y, ymd[2]) + ymd[3]

\* (a - b).days for two dates
DaysBetween(a, b) == toordinal(a) - toordinal(b)

Pad2(n) == <<DigitChar(n \div 10), DigitChar(n % 10)>>
Pad4(n) == <<DigitChar(n \div 1000), DigitChar((n \div 100) % 10),
             DigitChar((n \div 10) % 10), DigitChar(n % 10)>>

\* isoformat with day and month exchanged
isoformat_day_first(ymd) ==
    Pad4(ymd[1]) \o <<"-">> \o Pad2(ymd[3]) \o <<"-">> \o Pad2(ymd[2])

\* date.isoformat(): zero-padded YYYY-MM-DD
isoformat(ymd) == Pad4(ymd[1]) \o <<"-">> \o Pad2(ymd[2]) \o <<"-">> \o Pad2(ymd[3])

\* result of a failed parse
ValueError == <<>>

\* strptime directive %m: 1[0-2] | 0[1-9] | [1-9]; 0 when the token does not match
MonthToken(t) ==
    IF Len(t) = 1 /\ IsDigit(t[1]) /\ t[1] # "0" THEN DigitVal(t[1])
    ELSE IF Len(t) = 2 /\ t[1] = "1" /\ t[2] \in {"0", "1", "2"} THEN 10 + DigitVal(t[2])
    ELSE IF Len(t) = 2 /\ t[1] = "0" /\ IsDigit(t[2]) /\ t[2] # "0" THEN DigitVal(t[2])
    ELSE 0

\* strptime directive %d: 3[0-1] | [1-2]\d | 0[1-9] | [1-9] | " "[1-9]
DayToken(t) ==
    IF Len(t) = 1 /\ IsDigit(t[1]) /\ t[1] # "0" THEN DigitVal(t[1])
    ELSE IF Len(t) = 2 /\ t[1] = "3" /\ t[2] \in {"0", "1"} THEN 30 + DigitVal(t[2])
    ELSE IF Len(t) = 2 /\ t[1] \in {"1", "2"} /\ IsDigit(t[2])
         THEN 10 * DigitVal(t[1]) + DigitVal(t[2])
    ELSE IF Len(t) = 2 /\ t[1] \in {"0", " "} /\ IsDigit(t[2]) /\ t[2] # "0"
         THEN DigitVal(t[2])
    ELSE 0

\* strptime directive %Y: exactly four digits; -1 when the token does not match
YearToken(t) ==
    IF Len(t) = 4 /\ \A i \in 1..4 : IsDigit(t[i])
    THEN 1000 * DigitVal(t[1]) + 100 * DigitVal(t[2]) + 10 * DigitVal(t[3]) + DigitVal(t[4])
    ELSE -1

\* datetime.datetime.strptime(s, "%Y-%m-%d").date(): <<y, m, d>> or ValueError
strptime(s) ==
    IF Len(s) < 8 \/ Len(s) > 10 \/ s[5] # "-" THEN ValueError
    ELSE LET mlen == IF s[7] = "-" THEN 1 ELSE 2
             y == YearToken(SubSeq(s, 1, 4))
             m == MonthToken(SubSeq(s, 6, 5 + mlen))
             d == DayToken(SubSeq(s, 7 + mlen, Len(s)))
         IN  IF s[6 + mlen] = "-" /\ y >= 0 /\ m > 0 /\ d > 0 /\ ValidDate(y, m, d)
             THEN <<y, m, d>>
             ELSE ValueError

\* datetime.date.fromisoformat(s) on a str: YYYY-MM-DD or YYYYMMDD
fromisoformat(s) ==
    LET ext == Len(s) = 10 /\ s[5] = "-" /\ s[8] = "-"
                 /\ \A i \in {1, 2, 3, 4, 6, 7, 9, 10} : IsDigit(s[i])
        basic == Len(s) = 8 /\ \A i \in 1..8 : IsDigit(s[i])
        digits == IF ext THEN SubSeq(s, 1, 4) \o SubSeq(s, 6, 7) \o SubSeq(s, 9, 10) ELSE s
    IN  IF ext \/ basic
        THEN LET y == YearToken(SubSeq(digits, 1, 4))
                 m == 10 * DigitVal(digits[5]) + DigitVal(digits[6])
                 d == 10 * DigitVal(digits[7]) + DigitVal(digits[8])
             IN  IF ValidDate(y, m, d) THEN <<y, m, d>> ELSE ValueError
        ELSE ValueError

\* ------------------------------------------------------------------------
\* JSON documents and the backing file
\* ------------------------------------------------------------------------
\* json.dump raises TypeError on a value that has no JSON form
Serializable(v) == v.type \in {"str", "int", "NoneType"}

\* the JSON value json.dump writes for a Python value
to_json(v) ==
    CASE v.type = "str" -> [json |-> "string", chars |-> v.chars]
      [] v.type = "int" -> [json |-> "number", n |-> v.n]
      [] v.type = "NoneType" -> [json |-> "null"]

\* the Python value json.load builds from a JSON value
from_json(j) ==
    CASE j.json = "string" -> PyStr(j.chars)
      [] j.json = "number" -> PyInt(j.n)
      [] j.json = "null" -> PyNone

\* a file whose text is not one JSON document (truncated or partial write)
Garbage == [kind |-> "garbage"]
JsonFile(text) == [kind |-> "json", text |-> text]

\* outcomes of one attempt to open and write the file
IOOutcomes == {"ok", "open_fails", "write_fails"}

\* a path that names no file
Absent == [kind |-> "absent"]
\* self.storage_dir, the directory __init__ makes when it is missing
storage_dir == "user_data"
\* os.makedirs(self.storage_dir) unless it exists: the directories afterwards
makedirs(ds) == ds \cup {storage_dir}
\* open(path, 'w'): it fails when the directory of the path does not exist
open_w(path, ds, io) == IF path[1] \in ds THEN io ELSE "open_fails"

\* ------------------------------------------------------------------------
\* ExpirationTracker: state
\* ------------------------------------------------------------------------
VARIABLES
    expiration_data,   \* self.expiration_data: the in-memory document
    exp_file,          \* content of self.storage_file
    today,             \* datetime.date.today()
    user_data,         \* self.user_data: the in-memory preference document
    pref_file,         \* content of the preference storage_file
    now,               \* datetime.now(), as a count of clock ticks
    faults,            \* environment I/O faults so far
    last,              \* the last call: method, arguments, return value, save outcome
    other_user_data,   \* self.user_data of a second UserPreferences on the same file
    storage_file,      \* the storage_file each store was constructed with
    dirs               \* the directories that exist

expVars == <<expiration_data, exp_file, today>>
prefVars == <<user_data, pref_file, now>>
\* what no method of a store touches: the other instance, the paths, the
\* directories
envVars == <<other_user_data, storage_file, dirs>>

\* the document _load_data starts from when there is no usable file
EmptyExpirationData == [items |-> <<>>, notifications |-> <<>>]

\* I/O outcomes the environment may still produce
IO == IF faults < MaxFaults THEN IOOutcomes ELSE {"ok"}

ItemSerializable(item) ==
    Serializable(item.expiry_date) /\ Serializable(item.added_date)

item_to_json(item) ==
    [item EXCEPT !.expiry_date = to_json(item.expiry_date),
                 !.added_date = to_json(item.added_date)]

item_from_json(j) ==
    [j EXCEPT !.expiry_date = from_json(j.expiry_date),
              !.added_date = from_json(j.added_date)]

\* json.dump(self.expiration_data, f, indent=2) completes
exp_dumps_ok(doc) == \A i \in 1..Len(doc.items) : ItemSerializable(doc.items[i])

exp_json_dump(doc) ==
    [items |-> [i \in 1..Len(doc.items) |-> item_to_json(doc.items[i])],
     notifications |-> doc.notifications]

exp_json_load(text) ==
    [items |-> [i \in 1..Len(text.items) |-> item_from_json(text.items[i])],
     notifications |-> text.notifications]

\* _save_data succeeded: the file was opened and the whole document dumped
exp_saved(doc, io) == io = "ok" /\ exp_dumps_ok(doc)

\* the file after _save_data: open(..., 'w') truncates, json.dump writes;
\* every exception is caught and printed
exp_save_data(doc, f, io) ==
    IF io = "open_fails" THEN f
    ELSE IF exp_saved(doc, io) THEN JsonFile(exp_json_dump(doc))
    ELSE Garbage

SaveOutcome(ok) == IF ok THEN "ok" ELSE "failed"

\* ------------------------------------------------------------------------
\* ExpirationTracker: add_item
\* ------------------------------------------------------------------------
\* add_item_rejects without the check of the name
add_item_rejects_date_only(name, expiry_date) ==
    \/ ~Truthy(expiry_date)
    \/ (expiry_date.type = "str" /\ strptime(expiry_date.chars) = ValueError)

\* the early returns of add_item: missing name or date, or a str that
\* strptime rejects
add_item_rejects(name, expiry_date) ==
    \/ name = ""
    \/ ~Truthy(expiry_date)
    \/ (expiry_date.type = "str" /\ strptime(expiry_date.chars) = ValueError)

\* the value stored as expiry_date: str and date inputs become ISO strings,
\* any other object is stored as it is
normalize_expiry(expiry_date) ==
    IF expiry_date.type = "str" THEN PyStr(isoformat(strptime(expiry_date.chars)))
    ELSE IF expiry_date.type = "date" THEN PyStr(isoformat(expiry_date.ymd))
    ELSE expiry_date

\* "id": len(self.expiration_data["items"]) + 1
new_item_id(items) == Len(items) + 1

new_item(items, name, expiry_date, quantity, category) ==
    [id |-> new_item_id(items),
     name |-> name,
     expiry_date |-> normalize_expiry(expiry_date),
     quantity |-> quantity,
     category |-> category,
     added_date |-> PyStr(isoformat(today))]

add_item(name, expiry_date, quantity, category, io) ==
    LET items == expiration_data.items
        call == [op |-> "add_item", name |-> name, expiry_date |-> expiry_date]
    IN  IF add_item_rejects(name, expiry_date)
        THEN /\ io = "ok"
             /\ last' = call @@ [ret |-> "False", save |-> "none"]
             /\ UNCHANGED <<expiration_data, exp_file, today, faults>>
        ELSE LET doc == [expiration_data EXCEPT
                           !.items = Append(items,
                               new_item(items, name, expiry_date, quantity, category))]
             IN  /\ Len(items) < MaxItems
                 /\ expiration_data' = doc
                 /\ exp_file' = exp_save_data(doc, exp_file, io)
                 /\ faults' = IF io = "ok" THEN faults ELSE faults + 1
                 /\ last' = call @@ [ret |-> "True", save |-> SaveOutcome(exp_saved(doc, io))]
                 /\ UNCHANGED today

\* ------------------------------------------------------------------------
\* ExpirationTracker: remove_item, update_item
\* ------------------------------------------------------------------------
\* without_id that drops the first item when no item carries the id
without_id_else_first(items, item_id) ==
    IF \E i \in 1..Len(items) : items[i].id = item_id
    THEN SelectSeq(items, LAMBDA item : item.id # item_id)
    ELSE IF items = <<>> THEN items ELSE Tail(items)

\* without_id that drops only the first item carrying the id
without_first_id(items, item_id) ==
    IF \E i \in 1..Len(items) : items[i].id = item_id
    THEN LET first == CHOOSE i \in 1..Len(items) :
                         /\ items[i].id = item_id
                         /\ \A j \in 1..(i - 1) : items[j].id # item_id
         IN  SubSeq(items, 1, first - 1) \o SubSeq(items, first + 1, Len(items))
    ELSE items

\* [item for item in items if item["id"] != item_id]
without_id(items, item_id) == SelectSeq(items, LAMBDA item : item.id # item_id)

\* remove_item without its call of _save_data
remove_item_unsaved(item_id, io) ==
    /\ expiration_data' = [expiration_data EXCEPT !.items = without_id(@, item_id)]
    /\ last' = [op |-> "remove_item", item_id |-> item_id, ret |-> "None",
                save |-> "none"]
    /\ UNCHANGED <<exp_file, today, faults>>

remove_item(item_id, io) ==
    LET doc == [expiration_data EXCEPT !.items = without_id(@, item_id)]
    IN  /\ expiration_data' = doc
        /\ exp_file' = exp_save_data(doc, exp_file, io)
        /\ faults' = IF io = "ok" THEN faults ELSE faults + 1
        /\ last' = [op |-> "remove_item", item_id |-> item_id, ret |-> "None",
                    save |-> SaveOutcome(exp_saved(doc, io))]
        /\ UNCHANGED today

\* first_with_id that falls back to the first item when none matches
first_with_id_else_head(items, item_id) ==
    IF \E i \in 1..Len(items) : items[i].id = item_id
    THEN CHOOSE i \in 1..Len(items) :
            /\ items[i].id = item_id
            /\ \A j \in 1..(i - 1) : items[j].id # item_id
    ELSE IF items = <<>> THEN 0 ELSE 1

\* index of the last item carrying the id, 0 if none
last_with_id(items, item_id) ==
    IF \E i \in 1..Len(items) : items[i].id = item_id
    THEN CHOOSE i \in 1..Len(items) :
            /\ items[i].id = item_id
            /\ \A j \in (i + 1)..Len(items) : items[j].id # item_id
    ELSE 0

\* index of the first item the loop of update_item matches, 0 if none
first_with_id(items, item_id) ==
    IF \E i \in 1..Len(items) : items[i].id = item_id
    THEN CHOOSE i \in 1..Len(items) :
            /\ items[i].id = item_id
            /\ \A j \in 1..(i - 1) : items[j].id # item_id
    ELSE 0

\* apply_kwargs that also stores the keys the item does not have
apply_kwargs_any_key(item, kwargs) ==
    [key \in (DOMAIN item) \cup (DOMAIN kwargs) |->
        IF key \in DOMAIN kwargs THEN kwargs[key] ELSE item[key]]

\* for key, value in kwargs.items(): if key in item: item[key] = value
apply_kwargs(item, kwargs) ==
    [key \in DOMAIN item |-> IF key \in DOMAIN kwargs THEN kwargs[key] ELSE item[key]]

update_item(item_id, kwargs, io) ==
    LET items == expiration_data.items
        i == first_with_id(items, item_id)
        call == [op |-> "update_item", item_id |-> item_id, kwargs |-> kwargs]
    IN  IF i = 0
        THEN /\ io = "ok"
             /\ last' = call @@ [ret |-> "False", save |-> "none"]
             /\ UNCHANGED <<expiration_data, exp_file, today, faults>>
        ELSE LET doc == [expiration_data EXCEPT
                           !.items[i] = apply_kwargs(@, kwargs)]
             IN  /\ expiration_data' = doc
                 /\ exp_file' = exp_save_data(doc, exp_file, io)
                 /\ faults' = IF io = "ok" THEN faults ELSE faults + 1
                 /\ last' = call @@ [ret |-> "True", save |-> SaveOutcome(exp_saved(doc, io))]
                 /\ UNCHANGED today

\* ------------------------------------------------------------------------
\* ExpirationTracker: queries
\* ------------------------------------------------------------------------
\* sorted that returns the sequence in the order given
sorted_as_given(s, reverse) == s

\* sorted(s, key=..., reverse=...): stable; s is a sequence of records with
\* an integer field `key`.  Element i precedes element j when its key is
\* smaller (larger, if reversed) or the keys are equal and i < j.
sorted(s, reverse) ==
    LET before(i, j) ==
            \/ (IF reverse THEN s[i].key > s[j].key ELSE s[i].key < s[j].key)
            \/ (s[i].key = s[j].key /\ i < j)
        rank(i) == 1 + Cardinality({j \in 1..Len(s) : before(j, i)})
    IN  [r \in 1..Len(s) |-> s[CHOOSE i \in 1..Len(s) : rank(i) = r]]

\* datetime.date.fromisoformat(item["expiry_date"]) raises (TypeError for a
\* non-str, ValueError for a bad string): the item is skipped
\* the same, but a date object is taken as the expiry date it is
expiry_of_date_accepted(item) ==
    IF item.expiry_date.type = "str" THEN fromisoformat(item.expiry_date.chars)
    ELSE item.expiry_date.ymd

expiry_of(item) ==
    IF item.expiry_date.type = "str" THEN fromisoformat(item.expiry_date.chars)
    ELSE ValueError

\* item.copy() with one more field
with_field(item, name, value) ==
    [k \in DOMAIN item \cup {name} |-> IF k = name THEN value ELSE item[k]]

\* is_expiring_soon without the lower bound
is_expiring_soon_no_floor(days_left, days) == days_left <= days

\* is_expiring_soon with a strict lower bound
is_expiring_soon_strict(days_left, days) == 0 < days_left /\ days_left <= days

\* 0 <= days_left <= days
is_expiring_soon(days_left, days) == 0 <= days_left /\ days_left <= days

\* the loop of get_expiring_soon: the items kept, each with its days_left
RECURSIVE expiring_soon_loop(_, _, _)
expiring_soon_loop(items, day, days) ==
    IF items = <<>> THEN <<>>
    ELSE LET item == Head(items)
             expiry == expiry_of(item)
             rest == expiring_soon_loop(Tail(items), day, days)
         IN  IF expiry # ValueError /\ is_expiring_soon(DaysBetween(expiry, day), days)
             THEN <<with_field(item, "days_left", DaysBetween(expiry, day))>> \o rest
             ELSE rest

get_expiring_soon_result(items, day, days) ==
    LET kept == expiring_soon_loop(items, day, days)
        keyed == [i \in 1..Len(kept) |-> [key |-> kept[i].days_left, val |-> kept[i]]]
        ordered == sorted(keyed, FALSE)
    IN  [i \in 1..Len(kept) |-> ordered[i].val]

\* is_expired that also takes the item expiring today
is_expired_or_today(days_expired) == days_expired >= 0

\* days_expired > 0
is_expired(days_expired) == days_expired > 0

RECURSIVE expired_loop(_, _)
expired_loop(items, day) ==
    IF items = <<>> THEN <<>>
    ELSE LET item == Head(items)
             expiry == expiry_of(item)
             rest == expired_loop(Tail(items), day)
         IN  IF expiry # ValueError /\ is_expired(DaysBetween(day, expiry))
             THEN <<with_field(item, "days_expired", DaysBetween(day, expiry))>> \o rest
             ELSE rest

get_expired_result(items, day) ==
    LET kept == expired_loop(items, day)
        keyed == [i \in 1..Len(kept) |-> [key |-> kept[i].days_expired, val |-> kept[i]]]
        ordered == sorted(keyed, TRUE)
    IN  [i \in 1..Len(kept) |-> ordered[i].val]

\* get_all_items that lists the newest item first
get_all_items_newest_first ==
    /\ last' = [op |-> "get_all_items", save |-> "none",
                result |-> [i \in 1..Len(expiration_data.items) |->
                              expiration_data.items[Len(expiration_data.items) + 1 - i]]]
    /\ UNCHANGED <<expiration_data, exp_file, today, faults>>

get_all_items ==
    /\ last' = [op |-> "get_all_items", result |-> expiration_data.items, save |-> "none"]
    /\ UNCHANGED <<expiration_data, exp_file, today, faults>>

get_expiring_soon(days) ==
    /\ last' = [op |-> "get_expiring_soon", days |-> days, save |-> "none",
                result |-> get_expiring_soon_result(expiration_data.items, today, days)]
    /\ UNCHANGED <<expiration_data, exp_file, today, faults>>

\* get_expired that attaches days_expired to the stored items themselves
get_expired_in_place ==
    /\ last' = [op |-> "get_expired", save |-> "none",
                result |-> get_expired_result(expiration_data.items, today)]
    /\ expiration_data' =
           [expiration_data EXCEPT !.items =
               [i \in 1..Len(@) |->
                   IF expiry_of(@[i]) # ValueError
                        /\ is_expired(DaysBetween(today, expiry_of(@[i])))
                   THEN with_field(@[i], "days_expired", DaysBetween(today, expiry_of(@[i])))
                   ELSE @[i]]]
    /\ UNCHANGED <<exp_file, today, faults>>

get_expired ==
    /\ last' = [op |-> "get_expired", save |-> "none",
                result |-> get_expired_result(expiration_data.items, today)]
    /\ UNCHANGED <<expiration_data, exp_file, today, faults>>

\* ------------------------------------------------------------------------
\* ExpirationTracker: construction
\* ------------------------------------------------------------------------
\* ExpirationTracker(): a new instance replaces the old one and loads the
\* file; a missing file is created, an unreadable one is ignored
\* the same, but an unreadable file leaves the document of the old instance
ExpirationTracker_keeps_data(io) ==
    LET readable == io = "ok" /\ exp_file.kind = "json"
        doc == IF readable THEN exp_json_load(exp_file.text) ELSE expiration_data
        creates == exp_file.kind = "absent"
        opened == open_w(storage_file.exp, makedirs(dirs), io)
    IN  /\ io \in {"ok", "open_fails"}
        /\ dirs' = makedirs(dirs)
        /\ expiration_data' = doc
        /\ exp_file' = IF creates THEN exp_save_data(doc, exp_file, opened) ELSE exp_file
        /\ faults' = IF io = "ok" THEN faults ELSE faults + 1
        /\ last' = [op |-> "__init__",
                    save |-> IF creates THEN SaveOutcome(exp_saved(doc, opened)) ELSE "none"]
        /\ UNCHANGED today

ExpirationTracker(io) ==
    LET readable == io = "ok" /\ exp_file.kind = "json"
        doc == IF readable THEN exp_json_load(exp_file.text) ELSE EmptyExpirationData
        creates == exp_file.kind = "absent"
        opened == open_w(storage_file.exp, makedirs(dirs), io)
    IN  /\ io \in {"ok", "open_fails"}
        /\ dirs' = makedirs(dirs)
        /\ expiration_data' = doc
        /\ exp_file' = IF creates THEN exp_save_data(doc, exp_file, opened) ELSE exp_file
        /\ faults' = IF io = "ok" THEN faults ELSE faults + 1
        /\ last' = [op |-> "__init__",
                    save |-> IF creates THEN SaveOutcome(exp_saved(doc, opened)) ELSE "none"]
        /\ UNCHANGED today

\* ------------------------------------------------------------------------
\* UserPreferences: state
\* ------------------------------------------------------------------------
EmptyUserData ==
    [dietary_preferences |-> <<>>,
     liked_recipes |-> <<>>,
     disliked_recipes |-> <<>>,
     ingredient_preferences |-> [favorites |-> <<>>, dislikes |-> <<>>],
     meal_history |-> <<>>,
     cuisine_preferences |-> <<>>]

\* json.dump / json.load of the preference document: every value the
\* methods store is a str, an int or a list of those, which JSON carries
\* unchanged inside one top-level object
pref_json_dump(doc) == [json |-> "object", members |-> doc]
pref_json_load(text) == text.members

pref_saved(doc, io) == io = "ok"

\* the file after _save_data (exceptions are caught and printed)
pref_save_data(doc, f, io) ==
    IF io = "open_fails" THEN f
    ELSE IF pref_saved(doc, io) THEN JsonFile(pref_json_dump(doc))
    ELSE Garbage

\* number of list elements held by the document
Entries(doc) ==
    Len(doc.dietary_preferences) + Len(doc.liked_recipes) + Len(doc.disliked_recipes)
      + Len(doc.ingredient_preferences.favorites) + Len(doc.ingredient_preferences.dislikes)
      + Len(doc.meal_history) + Len(doc.cuisine_preferences)

\* the instants datetime.now() may return to a call made at clock value t
Instants(t) == {u \in {t, t + 1} : u <= MaxNow}

\* datetime.now() at clock tick t: ticks are half seconds, tick 0 is
\* 2024-02-29 23:59:59.000000 local time
datetime_now(t) ==
    LET seconds == 86399 + (t \div 2)
        of_day == seconds % 86400
    IN  [ymd |-> IF seconds < 86400 THEN <<2024, 2, 29>> ELSE <<2024, 3, 1>>,
         hour |-> of_day \div 3600,
         minute |-> (of_day \div 60) % 60,
         second |-> of_day % 60,
         microsecond |-> (t % 2) * 500000]

Pad6(n) == Pad2(n \div 10000) \o Pad4(n % 10000)

\* datetime.isoformat(): YYYY-MM-DDTHH:MM:SS, followed by .ffffff unless the
\* microsecond is 0
datetime_isoformat(dt) ==
    isoformat(dt.ymd) \o <<"T">> \o Pad2(dt.hour) \o <<":">> \o Pad2(dt.minute)
      \o <<":">> \o Pad2(dt.second)
      \o (IF dt.microsecond = 0 THEN <<>> ELSE <<".">> \o Pad6(dt.microsecond))

\* ord(c) of the characters of a timestamp
ord ==
    [c \in DigitSet \cup {"-", ".", ":", "T"} |->
        CASE c = "-" -> 45
          [] c = "." -> 46
          [] c = ":" -> 58
          [] c = "T" -> 84
          [] OTHER -> 48 + DigitVal(c)]

\* a < b on two str: the first differing character decides, a proper prefix
\* is smaller
RECURSIVE str_lt(_, _)
str_lt(a, b) ==
    IF b = <<>> THEN FALSE
    ELSE IF a = <<>> THEN TRUE
    ELSE IF Head(a) # Head(b) THEN ord[Head(a)] < ord[Head(b)]
    ELSE str_lt(Tail(a), Tail(b))

\* the clock ticks of all explorations
Ticks == 0..(MaxNow + MaxMealNow)

\* datetime.now().isoformat() at each tick.  The documents hold the tick in
\* place of this string; the string is what a comparison of two stored
\* timestamps compares.
now_isoformat == [t \in Ticks |-> datetime_isoformat(datetime_now(t))]

\* the place of the timestamp string of tick t among those of all ticks, in
\* the order of str comparison
date_key == [t \in Ticks |-> Cardinality({u \in Ticks : str_lt(now_isoformat[u], now_isoformat[t])})]

\* the common tail of every mutating method: store the document, save it
pref_commit(call, doc, io, t) ==
    /\ user_data' = doc
    /\ pref_file' = pref_save_data(doc, pref_file, io)
    /\ now' = t
    /\ faults' = IF io = "ok" THEN faults ELSE faults + 1
    /\ last' = call @@ [ret |-> "None", save |-> SaveOutcome(pref_saved(doc, io))]

\* ------------------------------------------------------------------------
\* UserPreferences: mutating methods
\* ------------------------------------------------------------------------
update_dietary_preferences(preferences, io) ==
    pref_commit([op |-> "update_dietary_preferences", preferences |-> preferences],
                [user_data EXCEPT !.dietary_preferences = preferences], io, now)

\* "id": len(self.user_data["liked_recipes"]) + 1
new_recipe_id(recipes) == Len(recipes) + 1

recipe_data(recipes, recipe, t) ==
    [id |-> new_recipe_id(recipes),
     title |-> recipe.title,
     ingredients |-> recipe.ingredients,
     timestamp |-> t]

\* without_title that filters nothing
without_title_kept(recipes, title) == recipes

\* [r for r in recipes if r["title"] != title]
without_title(recipes, title) == SelectSeq(recipes, LAMBDA r : r.title # title)

add_liked_recipe(recipe, io, t) ==
    pref_commit([op |-> "add_liked_recipe", recipe |-> recipe],
                [user_data EXCEPT
                    !.liked_recipes = Append(@, recipe_data(@, recipe, t)),
                    !.disliked_recipes = without_title(@, recipe.title)],
                io, t)

add_disliked_recipe(recipe, io, t) ==
    pref_commit([op |-> "add_disliked_recipe", recipe |-> recipe],
                [user_data EXCEPT
                    !.disliked_recipes = Append(@, recipe_data(@, recipe, t)),
                    !.liked_recipes = without_title(@, recipe.title)],
                io, t)

Contains(s, x) == \E i \in 1..Len(s) : s[i] = x

\* list.remove(x): drops the first occurrence of x (x is known to occur)
list_remove(s, x) ==
    LET i == CHOOSE k \in 1..Len(s) : s[k] = x /\ \A j \in 1..(k - 1) : s[j] # x
    IN  SubSeq(s, 1, i - 1) \o SubSeq(s, i + 1, Len(s))

\* removed_from_opposite that removes nothing
removed_from_opposite_kept(opposite, ingredient) == opposite

\* the opposite list after an ingredient was added to the target list
removed_from_opposite(opposite, ingredient) ==
    IF Contains(opposite, ingredient) THEN list_remove(opposite, ingredient)
    ELSE opposite

\* add_favorite_ingredient without the test for an ingredient already there
add_favorite_ingredient_again(ingredient, io) ==
    LET prefs == user_data.ingredient_preferences
    IN  pref_commit([op |-> "add_favorite_ingredient", ingredient |-> ingredient],
            [user_data EXCEPT !.ingredient_preferences =
                [favorites |-> Append(prefs.favorites, ingredient),
                 dislikes |-> removed_from_opposite(prefs.dislikes, ingredient)]],
            io, now)

add_favorite_ingredient(ingredient, io) ==
    LET prefs == user_data.ingredient_preferences
        call == [op |-> "add_favorite_ingredient", ingredient |-> ingredient]
    IN  IF ~Contains(prefs.favorites, ingredient)
        THEN pref_commit(call,
                 [user_data EXCEPT !.ingredient_preferences =
                     [favorites |-> Append(prefs.favorites, ingredient),
                      dislikes |-> removed_from_opposite(prefs.dislikes, ingredient)]],
                 io, now)
        ELSE /\ io = "ok"
             /\ last' = call @@ [ret |-> "None", save |-> "none"]
             /\ UNCHANGED <<user_data, pref_file, now, faults>>

add_disliked_ingredient(ingredient, io) ==
    LET prefs == user_data.ingredient_preferences
        call == [op |-> "add_disliked_ingredient", ingredient |-> ingredient]
    IN  IF ~Contains(prefs.dislikes, ingredient)
        THEN pref_commit(call,
                 [user_data EXCEPT !.ingredient_preferences =
                     [dislikes |-> Append(prefs.dislikes, ingredient),
                      favorites |-> removed_from_opposite(prefs.favorites, ingredient)]],
                 io, now)
        ELSE /\ io = "ok"
             /\ last' = call @@ [ret |-> "None", save |-> "none"]
             /\ UNCHANGED <<user_data, pref_file, now, faults>>

\* add_meal_to_history that records a recipe only once
add_meal_to_history_once(recipe_title, meal_type, io, t) ==
    pref_commit([op |-> "add_meal_to_history", recipe_title |-> recipe_title],
                IF \E i \in 1..Len(user_data.meal_history) :
                       user_data.meal_history[i].recipe = recipe_title
                THEN user_data
                ELSE [user_data EXCEPT !.meal_history =
                        Append(@, [recipe |-> recipe_title, date |-> t,
                                   meal_type |-> meal_type])],
                io, t)

add_meal_to_history(recipe_title, meal_type, io, t) ==
    pref_commit([op |-> "add_meal_to_history", recipe_title |-> recipe_title],
                [user_data EXCEPT !.meal_history =
                    Append(@, [recipe |-> recipe_title, date |-> t, meal_type |-> meal_type])],
                io, t)

update_cuisine_preferences(cuisines, io) ==
    pref_commit([op |-> "update_cuisine_preferences", cuisines |-> cuisines],
                [user_data EXCEPT !.cuisine_preferences = cuisines], io, now)

\* s[:limit]
slice_to(s, limit) ==
    LET stop == IF limit >= 0 THEN limit ELSE Len(s) + limit
    IN  SubSeq(s, 1, IF stop > Len(s) THEN Len(s) ELSE stop)

\* get_meal_history_result that sorts the oldest entry first
get_meal_history_result_oldest_first(meal_history, limit) ==
    LET keyed == [i \in 1..Len(meal_history) |->
                     [key |-> date_key[meal_history[i].date], val |-> meal_history[i]]]
        ordered == sorted(keyed, FALSE)
    IN  slice_to([i \in 1..Len(meal_history) |-> ordered[i].val], limit)

\* sorted(meal_history, key=lambda x: x["date"], reverse=True)[:limit]
get_meal_history_result(meal_history, limit) ==
    LET keyed == [i \in 1..Len(meal_history) |->
                     [key |-> date_key[meal_history[i].date], val |-> meal_history[i]]]
        ordered == sorted(keyed, TRUE)
    IN  slice_to([i \in 1..Len(meal_history) |-> ordered[i].val], limit)

get_meal_history(limit) ==
    /\ last' = [op |-> "get_meal_history", limit |-> limit, save |-> "none",
                result |-> get_meal_history_result(user_data.meal_history, limit)]
    /\ UNCHANGED <<user_data, pref_file, now, faults>>

\* UserPreferences(): a new instance replaces the old one and loads the file
UserPreferences(io) ==
    LET readable == io = "ok" /\ pref_file.kind = "json"
        doc == IF readable THEN pref_json_load(pref_file.text) ELSE EmptyUserData
        creates == pref_file.kind = "absent"
        opened == open_w(storage_file.pref, makedirs(dirs), io)
    IN  /\ io \in {"ok", "open_fails"}
        /\ dirs' = makedirs(dirs)
        /\ user_data' = doc
        /\ pref_file' = IF creates THEN pref_save_data(doc, pref_file, opened) ELSE pref_file
        /\ faults' = IF io = "ok" THEN faults ELSE faults + 1
        /\ last' = [op |-> "__init__",
                    save |-> IF creates THEN SaveOutcome(pref_saved(doc, opened)) ELSE "none"]
        /\ UNCHANGED now

\* ------------------------------------------------------------------------
\* Inputs
\* ------------------------------------------------------------------------

D_2024_02_29 == <<"2", "0", "2", "4", "-", "0", "2", "-", "2", "9">>
D_2024_3_1 == <<"2", "0", "2", "4", "-", "3", "-", "1">>
D_2023_02_29 == <<"2", "0", "2", "3", "-", "0", "2", "-", "2", "9">>
D_2024_03_s1 == <<"2", "0", "2", "4", "-", "0", "3", "-", " ", "1">>
NotADate == <<"n", "o", "t", "-", "a", "-", "d", "a", "t", "e">>

\* expiry_date arguments of add_item
ExpiryInputs ==
    {PyStr(D_2024_02_29), PyStr(D_2024_3_1), PyStr(D_2024_03_s1), PyStr(D_2023_02_29),
     PyStr(NotADate), PyStr(<<>>), PyNone, PyDate(2024, 3, 1)}

\* (name, expiry_date) arguments of add_item
AddInputs ==
    {<<"milk", e>> : e \in ExpiryInputs} \cup {<<"", PyStr(D_2024_02_29)>>}

\* keyword arguments of update_item
KwargsInputs ==
    {[expiry_date |-> PyDate(2024, 3, 1)],
     [expiry_date |-> PyStr(D_2024_02_29), notes |-> PyStr(<<"x">>)]}

ItemIds == 1..MaxItems
DaysInputs == {-1, 0, 7}
Todays == {<<2024, 2, 29>>, <<2024, 3, 1>>, <<2024, 3, 2>>}

RecipeInputs ==
    {[title |-> "Soup", ingredients |-> <<"water", "leek">>],
     [title |-> "Stew", ingredients |-> <<"beef">>]}
IngredientInputs == {"basil", "kale"}
DietaryInputs == {<<>>, <<"Vegan">>}
CuisineInputs == {<<>>, <<"Greek", "Thai">>}
MealInputs == {"Soup"}
LimitInputs == {1}
\* names and tag lists a caller of the preference store may pass
Basil == <<"B", "a", "s", "i", "l">>
basil == <<"b", "a", "s", "i", "l">>
kale_padded == <<" ", "k", "a", "l", "e", " ">>
NameInputs == {Basil, basil, kale_padded}
TagListInputs == {<<>>, <<"Vegan">>, <<"Keto", "Vegan">>, <<"Vegan", "Vegan">>}
\* limit arguments of the meal-history exploration
RecentLimits == {0, 1, 2, 10}

\* ------------------------------------------------------------------------
\* Specifications
\* ------------------------------------------------------------------------
vars ==
    <<expiration_data, exp_file, today, user_data, pref_file, now, faults, last,
      other_user_data, storage_file, dirs>>

\* storage_file="user_data/expiration_data.json" and
\* storage_file="user_data/user_preferences.json": a path is the pair of its
\* directory and its file name
DefaultStorageFiles ==
    [exp |-> <<"user_data", "expiration_data.json">>,
     pref |-> <<"user_data", "user_preferences.json">>]

\* both stores right after their first construction in an empty directory
Init ==
    /\ expiration_data = EmptyExpirationData
    /\ exp_file = JsonFile(exp_json_dump(EmptyExpirationData))
    /\ today \in Todays
    /\ user_data = EmptyUserData
    /\ pref_file = JsonFile(pref_json_dump(EmptyUserData))
    /\ now = 0
    /\ faults = 0
    /\ last = [op |-> "__init__", save |-> "ok"]
    /\ other_user_data = EmptyUserData
    /\ storage_file = DefaultStorageFiles
    /\ dirs = {"user_data"}

AddItem ==
    /\ \E args \in AddInputs, io \in IO : add_item(args[1], args[2], "", "Dairy", io)
    /\ UNCHANGED <<prefVars, envVars>>
RemoveItem ==
    /\ \E item_id \in ItemIds, io \in IO : remove_item(item_id, io)
    /\ UNCHANGED <<prefVars, envVars>>
UpdateItem ==
    /\ \E item_id \in ItemIds, kwargs \in KwargsInputs, io \in IO :
           update_item(item_id, kwargs, io)
    /\ UNCHANGED <<prefVars, envVars>>
GetAllItems == get_all_items /\ UNCHANGED <<prefVars, envVars>>
GetExpiringSoon == (\E days \in DaysInputs : get_expiring_soon(days)) /\ UNCHANGED <<prefVars, envVars>>
GetExpired == get_expired /\ UNCHANGED <<prefVars, envVars>>
NewExpirationTracker ==
    /\ \E io \in IO : ExpirationTracker(io)
    /\ UNCHANGED <<prefVars, other_user_data, storage_file>>

\* the expiration store in use
Next ==
    \/ AddItem
    \/ RemoveItem
    \/ UpdateItem
    \/ GetAllItems
    \/ GetExpiringSoon
    \/ GetExpired
    \/ NewExpirationTracker

Spec == Init /\ [][Next]_vars

\* the exploration stops at documents of more than MaxEntries elements
PrefBounded == Entries(user_data') <= MaxEntries

UpdateDietaryPreferences ==
    /\ \E preferences \in DietaryInputs, io \in IO :
           update_dietary_preferences(preferences, io)
    /\ PrefBounded
    /\ UNCHANGED <<expVars, envVars>>
AddLikedRecipe ==
    /\ \E recipe \in RecipeInputs, io \in IO, t \in Instants(now) :
           add_liked_recipe(recipe, io, t)
    /\ PrefBounded
    /\ UNCHANGED <<expVars, envVars>>
AddDislikedRecipe ==
    /\ \E recipe \in RecipeInputs, io \in IO, t \in Instants(now) :
           add_disliked_recipe(recipe, io, t)
    /\ PrefBounded
    /\ UNCHANGED <<expVars, envVars>>
AddFavoriteIngredient ==
    /\ \E ingredient \in IngredientInputs, io \in IO :
           add_favorite_ingredient(ingredient, io)
    /\ PrefBounded
    /\ UNCHANGED <<expVars, envVars>>
AddDislikedIngredient ==
    /\ \E ingredient \in IngredientInputs, io \in IO :
           add_disliked_ingredient(ingredient, io)
    /\ PrefBounded
    /\ UNCHANGED <<expVars, envVars>>
AddMealToHistory ==
    /\ \E recipe_title \in MealInputs, io \in IO, t \in Instants(now) :
           add_meal_to_history(recipe_title, "dinner", io, t)
    /\ PrefBounded
    /\ UNCHANGED <<expVars, envVars>>
UpdateCuisinePreferences ==
    /\ \E cuisines \in CuisineInputs, io \in IO : update_cuisine_preferences(cuisines, io)
    /\ PrefBounded
    /\ UNCHANGED <<expVars, envVars>>
GetMealHistory == (\E limit \in LimitInputs : get_meal_history(limit)) /\ UNCHANGED <<expVars, envVars>>
NewUserPreferences ==
    /\ \E io \in IO : UserPreferences(io)
    /\ UNCHANGED <<expVars, other_user_data, storage_file>>

\* the preference store in use
PrefNext ==
    \/ UpdateDietaryPreferences
    \/ AddLikedRecipe
    \/ AddDislikedRecipe
    \/ AddFavoriteIngredient
    \/ AddDislikedIngredient
    \/ AddMealToHistory
    \/ UpdateCuisinePreferences
    \/ GetMealHistory
    \/ NewUserPreferences

PrefInit == Init /\ today = <<2024, 2, 29>>

PrefSpec == PrefInit /\ [][PrefNext]_vars

\* the meal history in use: meals are recorded and the recent ones listed
RecordMeal ==
    /\ \E recipe_title \in MealInputs, io \in IO, t \in {now, now + 1} :
           /\ t <= MaxMealNow
           /\ add_meal_to_history(recipe_title, "dinner", io, t)
    /\ Len(user_data'.meal_history) <= MaxMeals
    /\ UNCHANGED <<expVars, envVars>>
RecentMeals == (\E limit \in RecentLimits : get_meal_history(limit)) /\ UNCHANGED <<expVars, envVars>>

MealNext ==
    \/ RecordMeal
    \/ RecentMeals

MealSpec == PrefInit /\ [][MealNext]_vars

\* the preference store called directly, with any name and any tag list
SetDietaryPreferences ==
    /\ \E preferences \in TagListInputs, io \in IO :
           update_dietary_preferences(preferences, io)
    /\ UNCHANGED <<expVars, envVars>>
AddFavoriteName ==
    /\ \E ingredient \in NameInputs, io \in IO : add_favorite_ingredient(ingredient, io)
    /\ UNCHANGED <<expVars, envVars>>
AddDislikedName ==
    /\ \E ingredient \in NameInputs, io \in IO : add_disliked_ingredient(ingredient, io)
    /\ UNCHANGED <<expVars, envVars>>

CallerNext ==
    \/ SetDietaryPreferences
    \/ AddFavoriteName
    \/ AddDislikedName
    \/ NewUserPreferences

CallerSpec == PrefInit /\ [][CallerNext]_vars

\* two UserPreferences instances on the same storage_file: the caller turns
\* from the one to the other, and the methods then act on that one
UseOtherInstance ==
    /\ user_data' = other_user_data
    /\ other_user_data' = user_data
    /\ last' = [op |-> "use_other_instance", save |-> "none"]
    /\ UNCHANGED <<pref_file, now, faults, storage_file, dirs, expVars>>

PeerNext ==
    \/ AddFavoriteIngredient
    \/ AddDislikedIngredient
    \/ NewUserPreferences
    \/ UseOtherInstance

PeerSpec == PrefInit /\ [][PeerNext]_vars

\* storage_file arguments: the default ones and ones in another directory
StorageFiles ==
    [exp : {DefaultStorageFiles.exp, <<"elsewhere", "expiration_data.json">>},
     pref : {DefaultStorageFiles.pref, <<"elsewhere", "user_preferences.json">>}]

\* the environment before a first run: no data file exists, the directory of
\* a storage_file may or may not, and the stores are going to be constructed
\* with the given storage_file arguments
RemoveStorage ==
    /\ \E paths \in StorageFiles, ds \in SUBSET {storage_dir, "elsewhere"} :
           /\ storage_file' = paths
           /\ dirs' = ds
    /\ exp_file' = Absent
    /\ pref_file' = Absent
    /\ last' = [op |-> "remove_storage", save |-> "none"]
    /\ UNCHANGED <<expiration_data, today, user_data, now, faults, other_user_data>>

PathNext ==
    \/ RemoveStorage
    \/ NewExpirationTracker
    \/ NewUserPreferences

PathSpec == PrefInit /\ [][PathNext]_vars

\* both stores in one session.  The stores share no document and no file, so
\* the session is explored with one store holding data at a time: a method
\* of one store runs while the other store is in its freshly created state.
ExpirationStoreFresh ==
    /\ expiration_data = EmptyExpirationData
    /\ exp_file = JsonFile(exp_json_dump(EmptyExpirationData))
PreferenceStoreFresh ==
    /\ user_data = EmptyUserData
    /\ pref_file = JsonFile(pref_json_dump(EmptyUserData))

\* the constructor and the mutating methods of each store; the queries write
\* nothing and are explored in Spec, PrefSpec and QuerySpec
StoreNext ==
    \/ (PreferenceStoreFresh /\ (AddItem \/ RemoveItem \/ UpdateItem \/ NewExpirationTracker))
    \/ (ExpirationStoreFresh
           /\ (\/ UpdateDietaryPreferences
               \/ AddLikedRecipe
               \/ AddDislikedRecipe
               \/ AddFavoriteIngredient
               \/ AddDislikedIngredient
               \/ AddMealToHistory
               \/ UpdateCuisinePreferences
               \/ NewUserPreferences))

StoreSpec == PrefInit /\ [][StoreNext]_vars

\* the constructor and mutating methods of each store (for the preferences,
\* one method of each kind: list assignment, recipe, ingredient, meal), the
\* other store being as constructed
FaultNext ==
    \/ (PreferenceStoreFresh /\ (AddItem \/ RemoveItem \/ UpdateItem \/ NewExpirationTracker))
    \/ (ExpirationStoreFresh
           /\ (\/ UpdateDietaryPreferences
               \/ AddLikedRecipe
               \/ AddFavoriteIngredient
               \/ AddMealToHistory
               \/ NewUserPreferences))

FaultSpec == PrefInit /\ [][FaultNext]_vars

\* values of expiry_date that date.fromisoformat does not read
UnparsableInputs == {[expiry_date |-> PyStr(NotADate)], [expiry_date |-> PyDate(2024, 3, 1)]}

UpdateItemUnparsable ==
    /\ \E item_id \in ItemIds, kwargs \in UnparsableInputs, io \in IO :
           update_item(item_id, kwargs, io)
    /\ UNCHANGED <<prefVars, envVars>>

\* the two queries on a store whose items may carry such values, set by
\* update_item or loaded from the file
SkipNext ==
    \/ AddItem
    \/ UpdateItemUnparsable
    \/ GetExpiringSoon
    \/ GetExpired
    \/ NewExpirationTracker

SkipSpec == Init /\ [][SkipNext]_vars

\* the four queries, on stores filled by add_item and add_meal_to_history
QueryNext ==
    \/ AddItem
    \/ AddMealToHistory
    \/ GetAllItems
    \/ GetExpiringSoon
    \/ GetExpired
    \/ GetMealHistory

QuerySpec == Init /\ [][QueryNext]_vars

\* ------------------------------------------------------------------------
\* Properties
\* ------------------------------------------------------------------------
Items == expiration_data.items
Liked == user_data.liked_recipes
Disliked == user_data.disliked_recipes
Favorites == user_data.ingredient_preferences.favorites
Dislikes == user_data.ingredient_preferences.dislikes

\* C1: no two items of the expiration document carry the same id.
C1_ItemIdsUnique ==
    \A i, j \in 1..Len(Items) : i # j => Items[i].id # Items[j].id

StrictlyIncreasingIds(recipes) ==
    \A i, j \in 1..Len(recipes) : i < j => recipes[i].id < recipes[j].id

\* C2: within liked_recipes, and within disliked_recipes, the ids are
\* strictly increasing in list order (a monotonic per-list counter).
C2_RecipeIdsIncreasing ==
    StrictlyIncreasingIds(Liked) /\ StrictlyIncreasingIds(Disliked)

\* C3: no ingredient is both in favorites and in dislikes.
C3_FavoritesDislikesDisjoint ==
    \A i \in 1..Len(Favorites), j \in 1..Len(Dislikes) : Favorites[i] # Dislikes[j]

\* C3 witness: add_favorite_ingredient moved an ingredient: the file (its
\* save failed at open) still shows the ingredient as disliked.
C3_Witness ==
    /\ last.op = "add_favorite_ingredient"
    /\ last.save = "failed"
    /\ pref_file.kind = "json"
    /\ Contains(pref_json_load(pref_file.text).ingredient_preferences.dislikes,
                last.ingredient)
    /\ Contains(Favorites, last.ingredient)
    /\ Dislikes # <<>>

\* C4: no recipe title is both in liked_recipes and in disliked_recipes.
C4_TitlesExclusive ==
    \A i \in 1..Len(Liked), j \in 1..Len(Disliked) : Liked[i].title # Disliked[j].title

\* C4 witness: "Soup" was liked (the file, whose save failed at open, still
\* says so) and add_disliked_recipe has now recorded it as disliked.
C4_Witness ==
    /\ last.op = "add_disliked_recipe"
    /\ last.recipe.title = "Soup"
    /\ last.save = "failed"
    /\ pref_file.kind = "json"
    /\ \E i \in 1..Len(pref_json_load(pref_file.text).liked_recipes) :
           pref_json_load(pref_file.text).liked_recipes[i].title = "Soup"
    /\ \E j \in 1..Len(Disliked) : Disliked[j].title = "Soup"
    /\ Liked # <<>>

\* the ways a calendar date is written so that it reads as year-month-day:
\* four-digit year, month and day with or without padding
C5_Renderings(y, m, d) ==
    LET months == {Pad2(m)} \cup (IF m < 10 THEN {<<DigitChar(m)>>} ELSE {})
        days == {Pad2(d)}
                  \cup (IF d < 10 THEN {<<DigitChar(d)>>, <<" ", DigitChar(d)>>} ELSE {})
    IN  {Pad4(y) \o <<"-">> \o mm \o <<"-">> \o dd : mm \in months, dd \in days}

C5_DateStrings ==
    UNION {C5_Renderings(ymd[1], ymd[2], ymd[3]) :
             ymd \in {c \in (2023..2024) \X (1..12) \X (1..31) :
                        c[3] <= DaysInMonth(c[1], c[2])}}

C5_BadArguments(name, expiry_date) ==
    \/ name = ""
    \/ expiry_date = PyNone
    \/ expiry_date = PyStr(<<>>)
    \/ (expiry_date.type = "str" /\ expiry_date.chars \notin C5_DateStrings)

\* C5: add_item with an empty name, an empty or absent expiry_date, or a
\* string that is not a date returns False, leaves the document unchanged
\* and does not write the file.
C5_BadAddRejected ==
    [][(last'.op = "add_item" /\ C5_BadArguments(last'.name, last'.expiry_date))
         => /\ last'.ret = "False"
            /\ last'.save = "none"
            /\ expiration_data' = expiration_data
            /\ exp_file' = exp_file]_vars

C5_Witness ==
    /\ last.op = "add_item"
    /\ last.expiry_date = PyStr(NotADate)
    /\ last.ret = "False"
    /\ Items # <<>>

\* a string of the form YYYY-MM-DD naming a calendar date
IsIsoDateString(v) ==
    /\ v.type = "str"
    /\ Len(v.chars) = 10
    /\ v.chars[5] = "-" /\ v.chars[8] = "-"
    /\ \A i \in {1, 2, 3, 4, 6, 7, 9, 10} : IsDigit(v.chars[i])
    /\ LET m == 10 * DigitVal(v.chars[6]) + DigitVal(v.chars[7])
           d == 10 * DigitVal(v.chars[9]) + DigitVal(v.chars[10])
       IN  m \in 1..12 /\ d \in 1..DaysInMonth(YearToken(SubSeq(v.chars, 1, 4)), m)

\* C6: the expiry_date of every stored item is an ISO calendar date string.
C6_ExpiryAlwaysIso ==
    \A i \in 1..Len(Items) : IsIsoDateString(Items[i].expiry_date)

\* what a fresh instance loading the file lists
C7_Reread == exp_json_load(exp_file.text).items

\* C7: after a successful add_item(name, d) with d a valid YYYY-MM-DD string,
\* the new item listed by get_all_items carries expiry_date d, and so does the
\* item a fresh instance loads from the saved file.
C7_DateRoundTrip ==
    (/\ last.op = "add_item"
     /\ last.ret = "True"
     /\ IsIsoDateString(last.expiry_date))
    => /\ Items[Len(Items)].expiry_date = last.expiry_date
       /\ last.save = "ok" =>
             /\ exp_file.kind = "json"
             /\ Len(C7_Reread) = Len(Items)
             /\ C7_Reread[Len(Items)].expiry_date = last.expiry_date

C7_Witness ==
    /\ last.op = "add_item"
    /\ last.ret = "True"
    /\ last.save = "ok"
    /\ last.expiry_date = PyStr(D_2024_02_29)
    /\ Len(Items) = 2

\* C8: add_item and update_item never return True when the save failed.
C8_NoSuccessOnFailedSave ==
    ~(last.op \in {"add_item", "update_item"} /\ last.ret = "True" /\ last.save = "failed")

ExpMutators == {"add_item", "remove_item", "update_item"}
PrefMutators ==
    {"update_dietary_preferences", "add_liked_recipe", "add_disliked_recipe",
     "add_favorite_ingredient", "add_disliked_ingredient", "add_meal_to_history",
     "update_cuisine_preferences"}

\* C9: a method that changes a document, or that saves unconditionally,
\* attempts the write before it returns, and when the write succeeds the
\* file holds exactly the in-memory document.
C9_WrittenBeforeReturn ==
    [][/\ (last'.op \in ExpMutators /\ expiration_data' # expiration_data)
            => last'.save # "none"
       /\ (last'.op \in PrefMutators /\ user_data' # user_data)
            => last'.save # "none"
       /\ (last'.op \in (PrefMutators \cup {"remove_item"})
                \ {"add_favorite_ingredient", "add_disliked_ingredient"})
            => last'.save # "none"
       /\ (last'.op \in {"add_item", "update_item"} /\ last'.ret = "True")
            => last'.save # "none"
       /\ (last'.op \in ExpMutators /\ last'.save = "ok")
            => /\ exp_file'.kind = "json"
               /\ exp_json_load(exp_file'.text) = expiration_data'
       /\ (last'.op \in PrefMutators /\ last'.save = "ok")
            => /\ pref_file'.kind = "json"
               /\ pref_json_load(pref_file'.text) = user_data']_vars

\* C9 witness: a liked recipe was recorded and saved after an earlier save
\* had failed, so the write had a stale file to bring up to date
C9_Witness ==
    /\ last.op = "add_liked_recipe"
    /\ last.save = "ok"
    /\ faults > 0
    /\ Len(Liked) = 2

\* (expiry_date - today).days of a stored item with a parsable date
C10_DaysLeft(item) == DaysBetween(fromisoformat(item.expiry_date.chars), today)

C10_Qualifies(item, days) ==
    /\ item.expiry_date.type = "str"
    /\ fromisoformat(item.expiry_date.chars) # ValueError
    /\ 0 <= C10_DaysLeft(item)
    /\ C10_DaysLeft(item) <= days

\* C10: get_expiring_soon(days) returns exactly the stored items with a
\* parsable expiry_date and 0 <= expiry_date - today <= days, each once and
\* with days_left equal to that difference.
C10_ExpiringSoonExact ==
    last.op = "get_expiring_soon" =>
        LET result == last.result
            expected(i) == Items[i] @@ [days_left |-> C10_DaysLeft(Items[i])]
            wanted == {i \in 1..Len(Items) : C10_Qualifies(Items[i], last.days)}
        IN  /\ Len(result) = Cardinality(wanted)
            /\ \A i \in wanted : \E k \in 1..Len(result) : result[k] = expected(i)
            /\ \A k \in 1..Len(result) :
                   Cardinality({n \in 1..Len(result) : result[n] = result[k]})
                     = Cardinality({i \in wanted : expected(i) = result[k]})

C10_Witness ==
    /\ last.op = "get_expiring_soon"
    /\ last.days = 0
    /\ Len(last.result) = 1
    /\ Len(Items) = 2
    /\ \A i \in 1..2 : Items[i].expiry_date.type = "str"
                         /\ fromisoformat(Items[i].expiry_date.chars) # ValueError

\* the stored item carries an expiry_date that date.fromisoformat reads
Parsable(item) ==
    /\ item.expiry_date.type = "str"
    /\ fromisoformat(item.expiry_date.chars) # ValueError

\* (today - expiry_date).days of a stored item with a parsable date
C11_DaysExpired(item) == DaysBetween(today, fromisoformat(item.expiry_date.chars))

\* C11: get_expired returns exactly the stored items with a parsable
\* expiry_date and today - expiry_date > 0, each once and with days_expired
\* equal to that difference; an item that expired yesterday is returned with
\* days_expired = 1.
C11_ExpiredExact ==
    last.op = "get_expired" =>
        LET result == last.result
            expected(i) == Items[i] @@ [days_expired |-> C11_DaysExpired(Items[i])]
            wanted == {i \in 1..Len(Items) :
                         Parsable(Items[i]) /\ C11_DaysExpired(Items[i]) > 0}
        IN  /\ Len(result) = Cardinality(wanted)
            /\ \A i \in wanted : \E k \in 1..Len(result) : result[k] = expected(i)
            /\ \A k \in 1..Len(result) :
                   Cardinality({n \in 1..Len(result) : result[n] = result[k]})
                     = Cardinality({i \in wanted : expected(i) = result[k]})
            /\ \A i \in 1..Len(Items) :
                   (Parsable(Items[i])
                      /\ toordinal(fromisoformat(Items[i].expiry_date.chars))
                            = toordinal(today) - 1)
                   => \E k \in 1..Len(result) :
                         result[k] = Items[i] @@ [days_expired |-> 1]

\* C11 witness: of two items with parsable dates, get_expired returned only
\* the one that expired yesterday
C11_Witness ==
    /\ last.op = "get_expired"
    /\ Len(Items) = 2
    /\ \A i \in 1..2 : Parsable(Items[i])
    /\ Len(last.result) = 1
    /\ last.result[1].days_expired = 1

\* a returned copy without the field the query attached
C12_Stored(r, field) == [k \in (DOMAIN r) \ {field} |-> r[k]]

C12_Expiry(item) == toordinal(fromisoformat(item.expiry_date.chars))

\* C12: for the same today and every days, no stored item is returned by
\* both get_expiring_soon(days) and get_expired(): when get_expired has
\* returned, its result shares no item with what get_expiring_soon(days)
\* returns on the same store; an item expiring today is in
\* get_expiring_soon(7) with days_left = 0 and not in the result; an item
\* that expired before today is in the result and in no
\* get_expiring_soon(days).
C12_SoonAndExpiredDisjoint ==
    last.op = "get_expired" =>
        LET expired == last.result
            soon == [days \in DaysInputs |->
                        get_expiring_soon_result(Items, today, days)]
            in_expired == {C12_Stored(expired[n], "days_expired") : n \in 1..Len(expired)}
            in_soon == [days \in DaysInputs |->
                          {C12_Stored(soon[days][k], "days_left") :
                              k \in 1..Len(soon[days])}]
        IN  /\ \A days \in DaysInputs : in_soon[days] \cap in_expired = {}
            /\ \A i \in 1..Len(Items) :
                   (Parsable(Items[i]) /\ C12_Expiry(Items[i]) = toordinal(today))
                   => /\ \E k \in 1..Len(soon[7]) :
                             soon[7][k] = Items[i] @@ [days_left |-> 0]
                      /\ Items[i] \notin in_expired
            /\ \A i \in 1..Len(Items) :
                   (Parsable(Items[i]) /\ C12_Expiry(Items[i]) < toordinal(today))
                   => /\ Items[i] \in in_expired
                      /\ \A days \in DaysInputs : Items[i] \notin in_soon[days]

\* C12 witness: the store holds an item expiring today and an item already
\* expired; get_expired returned the second one only, and
\* get_expiring_soon(7) returns the first one only
C12_Witness ==
    /\ last.op = "get_expired"
    /\ Len(Items) = 2
    /\ \A i \in 1..2 : Parsable(Items[i])
    /\ Len(last.result) = 1
    /\ Len(get_expiring_soon_result(Items, today, 7)) = 1
    /\ get_expiring_soon_result(Items, today, 7)[1].days_left = 0

\* C13: the result of get_expiring_soon is in non-decreasing order of
\* days_left, and the result of get_expired is in non-increasing order of
\* days_expired (most overdue first).
C13_ResultsSorted ==
    /\ last.op = "get_expiring_soon" =>
           \A k, n \in 1..Len(last.result) :
               k < n => last.result[k].days_left <= last.result[n].days_left
    /\ last.op = "get_expired" =>
           \A k, n \in 1..Len(last.result) :
               k < n => last.result[k].days_expired >= last.result[n].days_expired

\* C13 witness: get_expired returned two items in the reverse of their order
\* in the store, the more overdue one first
C13_Witness ==
    /\ last.op = "get_expired"
    /\ Len(Items) = 2
    /\ Len(last.result) = 2
    /\ last.result[1].days_expired > last.result[2].days_expired
    /\ last.result[1] = Items[2] @@ [days_expired |-> last.result[1].days_expired]
    /\ last.result[2] = Items[1] @@ [days_expired |-> last.result[2].days_expired]

\* C14: remove_item with an id that no stored item carries returns normally,
\* leaves the item list as it was, in content and order, and still saves:
\* the write is attempted, and when it succeeds the file holds the unchanged
\* document.
C14_RemoveMissingIsNoOp ==
    [][(/\ last'.op = "remove_item"
        /\ \A i \in 1..Len(Items) : Items[i].id # last'.item_id)
         => /\ last'.ret = "None"
            /\ expiration_data' = expiration_data
            /\ last'.save # "none"
            /\ last'.save = "ok" =>
                  exp_file' = JsonFile(exp_json_dump(expiration_data))]_vars

\* C14 witness: a remove_item on a store holding an item whose attempt to
\* open the file failed; the file, written by the call before it, still
\* equals the document, so this call removed nothing
C14_Witness ==
    /\ last.op = "remove_item"
    /\ last.save = "failed"
    /\ Items # <<>>
    /\ exp_dumps_ok(expiration_data)
    /\ exp_file = JsonFile(exp_json_dump(expiration_data))

\* the field names add_item gives an item
C15_Fields == {"id", "name", "expiry_date", "quantity", "category", "added_date"}

\* C15: every stored item keeps exactly the field names add_item gave it,
\* whatever the operations; update_item on an existing id returns True,
\* saves, and changes nothing but fields of a matching item that are named
\* in the update, which take the value given.
C15_UpdateKeepsFields ==
    [][/\ \A i \in 1..Len(Items') : DOMAIN Items'[i] = C15_Fields
       /\ (/\ last'.op = "update_item"
           /\ \E i \in 1..Len(Items) : Items[i].id = last'.item_id)
            => /\ last'.ret = "True"
               /\ last'.save # "none"
               /\ last'.save = "ok" =>
                     exp_file' = JsonFile(exp_json_dump(expiration_data'))
               /\ Len(Items') = Len(Items)
               /\ \A i \in 1..Len(Items), f \in C15_Fields :
                      Items'[i][f] # Items[i][f]
                      => /\ Items[i].id = last'.item_id
                         /\ f \in DOMAIN last'.kwargs
                         /\ Items'[i][f] = last'.kwargs[f]]_vars

\* C15 witness: an update naming expiry_date and the unknown key notes was
\* applied and saved: the item has the new expiry_date and no notes field
C15_Witness ==
    /\ last.op = "update_item"
    /\ "notes" \in DOMAIN last.kwargs
    /\ last.ret = "True"
    /\ last.save = "ok"
    /\ \E i \in 1..Len(Items) :
           /\ Items[i].id = last.item_id
           /\ Items[i].expiry_date = last.kwargs.expiry_date
           /\ Items[i].added_date # last.kwargs.expiry_date
           /\ "notes" \notin DOMAIN Items[i]

\* C16: update_item with an id that no stored item carries returns False,
\* leaves the document unchanged and does not write the file.
C16_UpdateMissingFails ==
    [][(/\ last'.op = "update_item"
        /\ \A i \in 1..Len(Items) : Items[i].id # last'.item_id)
         => /\ last'.ret = "False"
            /\ last'.save = "none"
            /\ expiration_data' = expiration_data
            /\ exp_file' = exp_file]_vars

\* C16 witness: update_item returned False on a store that holds an item
C16_Witness ==
    /\ last.op = "update_item"
    /\ last.ret = "False"
    /\ Items # <<>>
    /\ \A i \in 1..Len(Items) : Items[i].id # last.item_id

\* a is b with some elements left out, the others in the order they have in b
C17_Subsequence(a, b) ==
    \E f \in [1..Len(a) -> 1..Len(b)] :
        /\ \A i, j \in 1..Len(a) : i < j => f[i] < f[j]
        /\ \A i \in 1..Len(a) : a[i] = b[f[i]]

\* C17: get_all_items returns the stored sequence as it is, and that
\* sequence is in insertion order: a successful add_item puts the new item
\* after all the others, remove_item leaves the survivors in their order,
\* and update_item leaves every item at its position.
C17_InsertionOrder ==
    [][/\ last'.op = "get_all_items" => (last'.result = Items /\ Items' = Items)
       /\ (last'.op = "add_item" /\ last'.ret = "True")
            => /\ Len(Items') = Len(Items) + 1
               /\ SubSeq(Items', 1, Len(Items)) = Items
               /\ Items'[Len(Items')].name = last'.name
       /\ last'.op = "remove_item"
            => /\ C17_Subsequence(Items', Items)
               /\ \A i \in 1..Len(Items) :
                      Items[i].id # last'.item_id
                      => Cardinality({k \in 1..Len(Items') : Items'[k] = Items[i]})
                           = Cardinality({k \in 1..Len(Items) : Items[k] = Items[i]})
       /\ last'.op = "update_item"
            => /\ Len(Items') = Len(Items)
               /\ \A i \in 1..Len(Items) :
                      \A f \in (DOMAIN Items[i]) \ (DOMAIN last'.kwargs) :
                          Items'[i][f] = Items[i][f]]_vars

\* C17 witness: get_all_items listed two items, the second added after a
\* removal (both carry id 2), with different expiry dates
C17_Witness ==
    /\ last.op = "get_all_items"
    /\ last.result = Items
    /\ Len(Items) = 2
    /\ Items[1].id = 2 /\ Items[2].id = 2
    /\ Items[1].expiry_date # Items[2].expiry_date

Meals == user_data.meal_history

\* entry i of the history h is listed before entry j: it is more recent, or
\* as recent and recorded earlier
C18_Before(h, i, j) == h[i].date > h[j].date \/ (h[i].date = h[j].date /\ i < j)

C19_MealHistoryAppendOnly ==
    [][last'.op # "__init__" =>
          IF last'.op = "add_meal_to_history"
          THEN /\ Len(Meals') = Len(Meals) + 1
               /\ SubSeq(Meals', 1, Len(Meals)) = Meals
               /\ Meals'[Len(Meals')].recipe = last'.recipe_title
          ELSE Meals' = Meals]_vars

\* C19 witness: add_meal_to_history recorded a meal equal to the one already
\* in the history (same recipe, same instant): both entries are kept
C19_Witness ==
    /\ last.op = "add_meal_to_history"
    /\ Len(Meals) = 2
    /\ Meals[1] = Meals[2]

C20_NoDuplicates(s) == \A i, j \in 1..Len(s) : i # j => s[i] # s[j]

\* the list a call of the two methods adds to
C20_Target(op, doc) ==
    IF op = "add_favorite_ingredient" THEN doc.ingredient_preferences.favorites
    ELSE doc.ingredient_preferences.dislikes

\* C20: add_favorite_ingredient and add_disliked_ingredient are idempotent.
\* Neither list ever holds a name twice; a call leaves its name in the target
\* list; a call for a name already in the target list changes neither the
\* document nor the file and does not save; so a second call in a row with
\* the same name leaves the document of the first.
C20_IngredientAddIdempotent ==
    [][/\ C20_NoDuplicates(Favorites') /\ C20_NoDuplicates(Dislikes')
       /\ last'.op \in {"add_favorite_ingredient", "add_disliked_ingredient"}
            => /\ Contains(C20_Target(last'.op, user_data'), last'.ingredient)
               /\ Contains(C20_Target(last'.op, user_data), last'.ingredient)
                    => /\ user_data' = user_data
                       /\ pref_file' = pref_file
                       /\ last'.save = "none"
               /\ (last.op = last'.op /\ last.ingredient = last'.ingredient)
                    => user_data' = user_data]_vars

\* C20 witness: add_favorite_ingredient was called for the name that is
\* already the second favorite: nothing was saved
C20_Witness ==
    /\ last.op = "add_favorite_ingredient"
    /\ last.save = "none"
    /\ Len(Favorites) = 2
    /\ Favorites[2] = last.ingredient

\* C21: after any update_dietary_preferences(preferences) call the stored
\* dietary_preferences equals the list supplied and holds no tag twice.
C21_DietaryIsSet ==
    last.op = "update_dietary_preferences" =>
        /\ user_data.dietary_preferences = last.preferences
        /\ \A i, j \in 1..Len(user_data.dietary_preferences) :
               i # j => user_data.dietary_preferences[i] # user_data.dietary_preferences[j]

\* str.lower() and str.strip() on ASCII text, as the UI applies them to the
\* text typed before it calls add_favorite_ingredient / add_disliked_ingredient
UpperChars ==
    <<"A", "B", "C", "D", "E", "F", "G", "H", "I", "J", "K", "L",
      "M", "N", "O", "P", "Q", "R", "S", "T", "U", "V", "W", "X", "Y", "Z">>
LowerChars ==
    <<"a", "b", "c", "d", "e", "f", "g", "h", "i", "j", "k", "l",
      "m", "n", "o", "p", "q", "r", "s", "t", "u", "v", "w", "x", "y", "z">>
lower_char(c) ==
    IF \E i \in 1..26 : UpperChars[i] = c
    THEN LowerChars[CHOOSE i \in 1..26 : UpperChars[i] = c]
    ELSE c
str_lower(s) == [i \in 1..Len(s) |-> lower_char(s[i])]
Whitespace == {" ", "\t", "\n", "\r"}
str_strip(s) ==
    LET inner == {i \in 1..Len(s) : s[i] \notin Whitespace}
    IN  IF inner = {} THEN <<>>
        ELSE SubSeq(s, CHOOSE i \in inner : \A j \in inner : i <= j,
                       CHOOSE i \in inner : \A j \in inner : i >= j)

\* the name is what strip().lower() makes of it
C22_Normalized(name) == str_lower(str_strip(name)) = name

\* C22: every name stored in favorites and in dislikes is
\* lowercase-normalized, whatever names the two add methods were given.
C22_NamesNormalized ==
    /\ \A i \in 1..Len(Favorites) : C22_Normalized(Favorites[i])
    /\ \A i \in 1..Len(Dislikes) : C22_Normalized(Dislikes[i])

\* the ingredient names a preferences file holds, favorites and dislikes
C23_Names(f) ==
    LET prefs == pref_json_load(f.text).ingredient_preferences
    IN  {prefs.favorites[i] : i \in 1..Len(prefs.favorites)}
            \cup {prefs.dislikes[i] : i \in 1..Len(prefs.dislikes)}

\* C23: with two instances on the same file and no I/O fault, an ingredient
\* added through either instance and saved never discards a name the file
\* already held: every name persisted before the call is persisted after it.
C23_NoLostUpdate ==
    [][(/\ last'.op \in {"add_favorite_ingredient", "add_disliked_ingredient"}
        /\ last'.save = "ok"
        /\ faults' = 0
        /\ pref_file.kind = "json"
        /\ pref_file'.kind = "json")
       => C23_Names(pref_file) \subseteq C23_Names(pref_file')]_vars

\* C24: constructing either store when its file is absent, with no I/O
\* fault, makes the directory of its storage_file exist and creates the file
\* holding the empty default document, whatever storage_file it was given.
C24_CreatedAtAnyPath ==
    [][/\ (NewExpirationTracker /\ exp_file = Absent /\ faults' = faults)
           => /\ storage_file.exp[1] \in dirs'
              /\ exp_file' = JsonFile(exp_json_dump(EmptyExpirationData))
       /\ (NewUserPreferences /\ pref_file = Absent /\ faults' = faults)
           => /\ storage_file.pref[1] \in dirs'
              /\ pref_file' = JsonFile(pref_json_dump(EmptyUserData))]_vars

\* the last call constructed the store and could not load its file: the file
\* is corrupt, or it is not what the new instance holds
C25_ExpLoadFailed ==
    /\ last.op = "__init__"
    /\ \/ exp_file = Garbage
       \/ exp_file.kind = "json" /\ exp_json_load(exp_file.text) # expiration_data
C25_PrefLoadFailed ==
    /\ last.op = "__init__"
    /\ \/ pref_file = Garbage
       \/ pref_file.kind = "json" /\ pref_json_load(pref_file.text) # user_data

\* C25: a construction that cannot load its file (corrupt, or the open
\* fails) returns with the empty default document and leaves the file as it
\* was; the first mutation after it that saves leaves in the file exactly the
\* document made from the empty default by that mutation.
C25_LoadFailureStartsEmpty ==
    [][/\ (NewExpirationTracker /\ (exp_file = Garbage \/ faults' > faults))
           => /\ expiration_data' = EmptyExpirationData
              /\ exp_file' = exp_file
       /\ (NewUserPreferences /\ (pref_file = Garbage \/ faults' > faults))
           => /\ user_data' = EmptyUserData
              /\ pref_file' = pref_file
       /\ (C25_ExpLoadFailed /\ last'.op \in ExpMutators /\ last'.save = "ok")
           => /\ expiration_data = EmptyExpirationData
              /\ Len(expiration_data'.items) <= 1
              /\ exp_file' = JsonFile(exp_json_dump(expiration_data'))
       /\ (C25_PrefLoadFailed /\ last'.op \in PrefMutators /\ last'.save = "ok")
           => /\ user_data = EmptyUserData
              /\ pref_file' = JsonFile(pref_json_dump(user_data'))]_vars

\* C25 witness: an ExpirationTracker was constructed on a corrupt file that
\* held more than the new instance does
C25_Witness ==
    /\ last.op = "__init__"
    /\ exp_file = Garbage
    /\ expiration_data = EmptyExpirationData
    /\ faults = 0

\* C26: a mutating call whose save fails, with no I/O fault of the
\* environment, returns normally and leaves the backing file with the
\* content it had before the call.
C26_FailedSaveKeepsFile ==
    [][/\ (last'.op \in ExpMutators /\ last'.save = "failed" /\ faults' = 0)
           => exp_file' = exp_file
       /\ (last'.op \in PrefMutators /\ last'.save = "failed" /\ faults' = 0)
           => pref_file' = pref_file]_vars

\* the stored items that qualify for the query last called
C27_Wanted ==
    {i \in 1..Len(Items) :
        /\ Parsable(Items[i])
        /\ IF last.op = "get_expired" THEN C11_DaysExpired(Items[i]) > 0
           ELSE 0 <= C10_DaysLeft(Items[i]) /\ C10_DaysLeft(Items[i]) <= last.days}

\* C27: when the store holds an item whose expiry_date date.fromisoformat
\* does not read, get_expiring_soon and get_expired still return: the result
\* holds no such item, it holds every qualifying item with a readable date,
\* and it is the result the query gives on the store without those items.
C27_UnparsableSkipped ==
    (/\ last.op \in {"get_expiring_soon", "get_expired"}
     /\ \E i \in 1..Len(Items) : ~Parsable(Items[i]))
    => LET result == last.result
           field == IF last.op = "get_expired" THEN "days_expired" ELSE "days_left"
           readable == SelectSeq(Items, Parsable)
       IN  /\ \A i \in 1..Len(Items) : "name" \in DOMAIN Items[i]
           /\ \A k \in 1..Len(result) :
                  \E i \in C27_Wanted : Items[i] = C12_Stored(result[k], field)
           /\ \A i \in C27_Wanted :
                  \E k \in 1..Len(result) : Items[i] = C12_Stored(result[k], field)
           /\ Len(result) = Cardinality(C27_Wanted)
           /\ result = IF last.op = "get_expired"
                       THEN get_expired_result(readable, today)
                       ELSE get_expiring_soon_result(readable, today, last.days)

\* C27 witness: the store was loaded from a file holding an item whose
\* expiry_date is not a date and an item that has expired; get_expired
\* returned the second one only
C27_Witness ==
    /\ last.op = "get_expired"
    /\ Len(Items) = 2
    /\ \E i \in 1..2 : Items[i].expiry_date = PyStr(NotADate)
    /\ exp_file.kind = "json"
    /\ exp_json_load(exp_file.text) = expiration_data
    /\ Len(last.result) = 1

C28_Queries == {"get_expiring_soon", "get_expired", "get_all_items", "get_meal_history"}

\* C28: get_expiring_soon, get_expired, get_all_items and get_meal_history
\* leave both documents and both files as they were; no stored item carries
\* days_left or days_expired, which every returned copy carries; and
\* meal_history keeps its order.
C28_QueriesChangeNothing ==
    [][last'.op \in C28_Queries
       => /\ expiration_data' = expiration_data
          /\ exp_file' = exp_file
          /\ user_data' = user_data
          /\ pref_file' = pref_file
          /\ \A i \in 1..Len(expiration_data'.items) :
                 (DOMAIN expiration_data'.items[i]) \cap {"days_left", "days_expired"} = {}
          /\ last'.op = "get_expiring_soon"
                 => \A k \in 1..Len(last'.result) : "days_left" \in DOMAIN last'.result[k]
          /\ last'.op = "get_expired"
                 => \A k \in 1..Len(last'.result) : "days_expired" \in DOMAIN last'.result[k]]_vars

\* C28 witness: get_expired returned a copy carrying days_expired of the one
\* stored item, which carries none and is what the file holds
C28_Witness ==
    /\ last.op = "get_expired"
    /\ Len(last.result) = 1
    /\ last.result[1].days_expired > 0
    /\ Len(Items) = 1
    /\ "days_expired" \notin DOMAIN Items[1]
    /\ exp_file = JsonFile(exp_json_dump(expiration_data))

\* C29: remove_item(id) leaves exactly the stored items whose id is not
\* the given one, each with its content and in the order they had: all items
\* carrying the id are gone, however many share it.
C29_RemoveExactlyMatching ==
    [][last'.op = "remove_item"
       => LET kept == {i \in 1..Len(Items) : Items[i].id # last'.item_id}
              place(i) == Cardinality({j \in kept : j <= i})
          IN  /\ Len(Items') = Cardinality(kept)
              /\ \A i \in kept : Items'[place(i)] = Items[i]
              /\ \A k \in 1..Len(Items') : Items'[k].id # last'.item_id
              /\ expiration_data'.notifications = expiration_data.notifications]_vars

\* C29 witness: remove_item emptied a store of two items sharing the id; its
\* attempt to open the file failed, so the file still shows the two items
C29_Witness ==
    /\ last.op = "remove_item"
    /\ last.save = "failed"
    /\ Items = <<>>
    /\ exp_file.kind = "json"
    /\ LET before == exp_json_load(exp_file.text).items
       IN  /\ Len(before) = 2
           /\ before[1].id = last.item_id
           /\ before[2].id = last.item_id

\* C30: update_item(id, ...) leaves the number and order of the items, and
\* changes at most the first item carrying the id: every other item, a later
\* one with the same id included, is as it was.
C30_UpdateFirstMatchOnly ==
    [][last'.op = "update_item"
       => /\ Len(Items') = Len(Items)
          /\ \A i \in 1..Len(Items) :
                 Items'[i] # Items[i]
                 => /\ Items[i].id = last'.item_id
                    /\ \A j \in 1..(i - 1) : Items[j].id # last'.item_id
          /\ expiration_data'.notifications = expiration_data.notifications]_vars

\* C30 witness: of two items sharing the id, update_item gave the new
\* expiry_date to the first one and not to the second one
C30_Witness ==
    /\ last.op = "update_item"
    /\ last.ret = "True"
    /\ Len(Items) = 2
    /\ Items[1].id = last.item_id
    /\ Items[2].id = last.item_id
    /\ Items[1].expiry_date = last.kwargs.expiry_date
    /\ Items[2].expiry_date # last.kwargs.expiry_date

====
